---- MODULE Spec2Model ----
(***************************************************************************)
(* Job-status synchronisation layer of the recipe extraction client:       *)
(*   useSSE           (hooks/useSSE,  src/unnamed/part_001)                *)
(*   usePolling       (hooks/usePolling, src/unnamed/part_002, l.153-240)  *)
(*   useExtractionJob (src/unnamed/part_004, l.94-243)                     *)
(*                                                                         *)
(* Everything runs on one JavaScript event loop.  One step of the model is *)
(* one task of that loop (an EventSource event, a timer, the settlement of *)
(* a promise, a call made by the consumer) run to completion, followed by  *)
(* the React commit it causes: the re-render and the effects whose         *)
(* dependencies changed, repeated until no state update is pending.        *)
(* React state is read by effects as of the render they belong to; refs    *)
(* are read and written in place.  The callbacks handed to the coordinator *)
(* by its consumer are referentially stable.                               *)
(*                                                                         *)
(* Spec        the coordinator with both transports, as useExtractionJob   *)
(*             configures them (3 reconnects, 10 consecutive poll errors), *)
(*             for one job identifier.                                     *)
(* SpecJobChange  the same coordinator when its consumer passes a new job  *)
(*             identifier while it is mounted, and does not call retry().  *)
(* SpecPolling usePolling on its own, hosted by a screen that enables it   *)
(*             at mount and calls startPolling / stopPolling itself (as    *)
(*             UnifiedRecipePreviewScreen does), for every error budget    *)
(*             in 0..MaxBudget.                                            *)
(* SpecApi     the token-refresh queue of the API client                   *)
(*             (src/src/api/api-client.ts, l.126-142, 213-289, 371-387):   *)
(*             MaxRequests requests issued through apiClient, the          *)
(*             responses they get and the awaits of the refresh branch.    *)
(***************************************************************************)
EXTENDS Integers, FiniteSets, Sequences, TLC

NULL == "null"

\* ---- bounds of the model ------------------------------------------------
MaxOrphanTimers == 1     \* reconnect / poll timers pending but no longer referenced
MaxInFlight     == 2     \* status fetches awaiting settlement at the same time
MaxCalls        == 2     \* recorded invocations of the consumer's onComplete
MaxScheduled    == 4     \* recorded reconnects scheduled since the last open
MaxStarts       == 2     \* recorded calls of startPolling
MaxFailRun      == 1     \* recorded rejected fetches in a row, under the coordinator
MaxBudget       == 2     \* largest maxConsecutiveErrors given to usePolling alone,
                         \* and rejected fetches in a row recorded there
MaxJobs         == 2     \* job identifiers the consumer passes, one after another
MaxRequests     == 3     \* requests the application issues through apiClient

\* ---- program constants --------------------------------------------------
maxReconnectAttempts == 3            \* useExtractionJob -> useSSE
CoordinatorMaxConsecutiveErrors == 10  \* useExtractionJob -> usePolling

\* ExtractionStatus; "pending" is handled exactly like "in_progress"
Statuses  == {"in_progress", "completed", "failed"}
Snapshots == [status : Statuses]
\* the null of a value that otherwise holds a snapshot
NoJob     == [status |-> NULL]

\* isJobComplete
isJobComplete(jobData) ==
    IF jobData = NoJob THEN FALSE
    ELSE jobData.status = "completed" \/ jobData.status = "failed"

\* event.data of a message / job_update event: a string holding JSON text
\* (well formed or not) or an object the transport has already parsed
Payloads ==
    [isString : {TRUE}, wellFormed : {TRUE}, body : Snapshots]
      \cup [isString : {FALSE}, wellFormed : {TRUE}, body : Snapshots]
      \cup {[isString |-> TRUE, wellFormed |-> FALSE, body |-> NoJob]}

\* typeof event.data === "string" ? JSON.parse(event.data) : event.data
ParseError == [status |-> "SyntaxError"]
ParsePayload(p) ==
    IF p.isString
    THEN (IF p.wellFormed THEN p.body ELSE ParseError)
    ELSE p.body

\* event.data of a server-sent "error" event
ErrorEventData ==
    { [present |-> FALSE, json |-> FALSE, text |-> ""],
      [present |-> TRUE,  json |-> TRUE,  text |-> "401 Unauthorized"] }

\* the message of the Error built by the "error" listener
ErrorEventMessage(d) ==
    IF ~d.present THEN "SSE error event"
    ELSE IF d.json THEN (IF d.text = "" THEN "SSE error event" ELSE d.text)
    ELSE d.text

\* what went wrong at transport level when onerror fires
ConnectionFailures == {"network", "http401", "http403"}
IsAuthFailure(kind) == kind \in {"http401", "http403"}

\* the Error built by eventSource.onerror, whatever the event carries
ConnectionErrorMessage(kind) == "SSE connection error"

\* err.message.includes("403") || err.message.includes("401")
MentionsAuthStatus(msg) == msg \in {"401 Unauthorized", "403 Forbidden"}

PollFailureMessage == "Network Error"

VARIABLES
    \* useExtractionJob
    jobId, enableSSE, mounted, tokenLoading, token, job, error,
    connectionType, usePollingFallback, hasCompletedRef,
    \* useSSE; esUrl tells whether the connection held was opened by the
    \* current render's connect or, by a timer that outlived the effect that
    \* set it, by a torn-down one; tornDownTimers counts such timers
    sseData, sseError, isConnected, reconnectAttempt, eventSourceRef, esUrl,
    readyState, reconnectTimeoutRef, sseOrphanTimers, tornDownTimers,
    isUnmountedRef, isCompletedRef, connectAttempt, sseEffectArmed,
    \* usePolling: who hosts it, its maxConsecutiveErrors, its state
    host, maxConsecutiveErrors,
    pollData, pollError, isPolling, timeoutRef, pollOrphanTimers,
    consecutiveErrorsRef, inFlight,
    \* observations of what the hooks did (not program state):
    \* calls of the consumer's onComplete, reconnects scheduled since the
    \* last open, calls of startPolling, fetches rejected and calls of
    \* usePolling's onError since the last resolved fetch or startPolling
    completeCalls, reconnectsScheduled, pollStarts, failRun, pollErrorRun,
    \* api-client: the module-level isRefreshing and failedQueue (the ids of
    \* the requests whose promise is parked there); every request issued
    \* through apiClient with its config and where its handling stands; the
    \* three keys of the secure store; the access_token of the refresh
    \* response being stored; whether router.replace("/(auth)/login") ran
    isRefreshing, failedQueue, requests, accessTokenStore,
    refreshTokenStore, expiryStore, refreshResponse, redirectedToLogin

vars ==
    << jobId, enableSSE, mounted, tokenLoading, token, job, error,
       connectionType, usePollingFallback, hasCompletedRef,
       sseData, sseError, isConnected, reconnectAttempt, eventSourceRef,
       esUrl, readyState, reconnectTimeoutRef, sseOrphanTimers,
       tornDownTimers, isUnmountedRef,
       isCompletedRef, connectAttempt, sseEffectArmed,
       host, maxConsecutiveErrors,
       pollData, pollError, isPolling, timeoutRef, pollOrphanTimers,
       consecutiveErrorsRef, inFlight,
       completeCalls, reconnectsScheduled, pollStarts, failRun,
       pollErrorRun,
       isRefreshing, failedQueue, requests, accessTokenStore,
       refreshTokenStore, expiryStore, refreshResponse, redirectedToLogin >>

\* the variables of the API client
apiVars ==
    << isRefreshing, failedQueue, requests, accessTokenStore,
       refreshTokenStore, expiryStore, refreshResponse, redirectedToLogin >>

\* the requests the application issues through apiClient
Requests == 1..MaxRequests

\* a request not issued yet
IdleRequest ==
    [ pc |-> "idle", _retry |-> FALSE, skipAuthRetry |-> FALSE,
      skipAuthRedirect |-> FALSE, rejectedWith |-> NULL ]

\* api-client as the module is loaded, for a signed-in user: no refresh
\* running, nothing queued, nothing issued
ApiModuleLoaded ==
    /\ isRefreshing = FALSE /\ failedQueue = << >>
    /\ requests = [r \in Requests |-> IdleRequest]
    /\ accessTokenStore = "expired" /\ refreshTokenStore = "rt"
    /\ expiryStore = "set"
    /\ refreshResponse = NULL /\ redirectedToLogin = FALSE

\* the current state as one record.  Four fields belong to the running
\* task only: dirty, the effect dependencies it changed and that are not yet
\* committed; errorCalls, its invocations of the consumer's onError;
\* completedWith, the snapshot it handed to the consumer's onComplete;
\* teardown, the teardown steps of the live channel it performed, in order
State ==
    [ jobId |-> jobId, esUrl |-> esUrl, tornDownTimers |-> tornDownTimers,
      enableSSE |-> enableSSE, mounted |-> mounted,
      tokenLoading |-> tokenLoading, token |-> token, job |-> job,
      error |-> error, connectionType |-> connectionType,
      usePollingFallback |-> usePollingFallback,
      hasCompletedRef |-> hasCompletedRef,
      sseData |-> sseData, sseError |-> sseError, isConnected |-> isConnected,
      reconnectAttempt |-> reconnectAttempt,
      eventSourceRef |-> eventSourceRef, readyState |-> readyState,
      reconnectTimeoutRef |-> reconnectTimeoutRef,
      sseOrphanTimers |-> sseOrphanTimers, isUnmountedRef |-> isUnmountedRef,
      isCompletedRef |-> isCompletedRef, connectAttempt |-> connectAttempt,
      sseEffectArmed |-> sseEffectArmed,
      pollData |-> pollData, pollError |-> pollError, isPolling |-> isPolling,
      timeoutRef |-> timeoutRef, pollOrphanTimers |-> pollOrphanTimers,
      consecutiveErrorsRef |-> consecutiveErrorsRef, inFlight |-> inFlight,
      host |-> host, maxConsecutiveErrors |-> maxConsecutiveErrors,
      completeCalls |-> completeCalls,
      reconnectsScheduled |-> reconnectsScheduled,
      pollStarts |-> pollStarts, failRun |-> failRun,
      pollErrorRun |-> pollErrorRun,
      dirty |-> {}, errorCalls |-> 0, completedWith |-> NoJob,
      teardown |-> << >> ]

Become(s) ==
    /\ jobId' = s.jobId /\ esUrl' = s.esUrl
    /\ tornDownTimers' = s.tornDownTimers
    /\ enableSSE' = s.enableSSE /\ mounted' = s.mounted
    /\ tokenLoading' = s.tokenLoading /\ token' = s.token /\ job' = s.job
    /\ error' = s.error /\ connectionType' = s.connectionType
    /\ usePollingFallback' = s.usePollingFallback
    /\ hasCompletedRef' = s.hasCompletedRef
    /\ sseData' = s.sseData /\ sseError' = s.sseError
    /\ isConnected' = s.isConnected
    /\ reconnectAttempt' = s.reconnectAttempt
    /\ eventSourceRef' = s.eventSourceRef /\ readyState' = s.readyState
    /\ reconnectTimeoutRef' = s.reconnectTimeoutRef
    /\ sseOrphanTimers' = s.sseOrphanTimers
    /\ isUnmountedRef' = s.isUnmountedRef
    /\ isCompletedRef' = s.isCompletedRef
    /\ connectAttempt' = s.connectAttempt
    /\ sseEffectArmed' = s.sseEffectArmed
    /\ pollData' = s.pollData /\ pollError' = s.pollError
    /\ isPolling' = s.isPolling /\ timeoutRef' = s.timeoutRef
    /\ pollOrphanTimers' = s.pollOrphanTimers
    /\ consecutiveErrorsRef' = s.consecutiveErrorsRef
    /\ inFlight' = s.inFlight
    /\ host' = s.host /\ maxConsecutiveErrors' = s.maxConsecutiveErrors
    /\ completeCalls' = s.completeCalls
    /\ reconnectsScheduled' = s.reconnectsScheduled
    /\ pollStarts' = s.pollStarts
    /\ failRun' = s.failRun /\ pollErrorRun' = s.pollErrorRun
    /\ UNCHANGED apiVars

\* a React state setter marks the effect dependency it changes; it does
\* nothing once the component is unmounted
Mark(s, dep) == [s EXCEPT !.dirty = @ \cup {dep}]

\* ------------------------------------------------------------------------
\* useExtractionJob: callbacks
\* ------------------------------------------------------------------------

\* handleComplete, reporting a failed job through onError instead
handleComplete_FailedIsError(s, jobData) ==
    IF ~s.hasCompletedRef /\ isJobComplete(jobData)
    THEN IF jobData.status = "failed"
         THEN [s EXCEPT !.hasCompletedRef = TRUE, !.errorCalls = @ + 1]
         ELSE [s EXCEPT !.hasCompletedRef = TRUE, !.completeCalls = @ + 1,
                        !.completedWith = jobData]
    ELSE s

\* handleComplete
handleComplete(s, jobData) ==
    IF ~s.hasCompletedRef /\ isJobComplete(jobData)
    THEN [s EXCEPT !.hasCompletedRef = TRUE, !.completeCalls = @ + 1,
                   !.completedWith = jobData]
    ELSE s

\* handleUpdate
handleUpdate(s, jobData) ==
    LET s1 == IF s.mounted THEN [s EXCEPT !.job = jobData, !.error = NULL]
              ELSE s
    IN  IF isJobComplete(jobData) THEN handleComplete(s1, jobData) ELSE s1

\* sseOnError, forgetting to switch the fallback on
sseOnError_NoFallback(s, msg) == s

\* the onError handed to useSSE
sseOnError(s, msg) ==
    LET s1 == IF s.mounted /\ ~s.usePollingFallback
              THEN Mark([s EXCEPT !.usePollingFallback = TRUE],
                        "usePollingFallback")
              ELSE s
    IN  [s1 EXCEPT !.errorCalls = @ + 1]

\* the shouldReconnect handed to useSSE
shouldReconnect(s, msg) ==
    IF MentionsAuthStatus(msg) THEN FALSE ELSE ~s.hasCompletedRef

\* the onError handed to usePolling
pollOnError(s, msg) ==
    LET s1 == IF s.mounted THEN [s EXCEPT !.error = msg] ELSE s
    IN  [s1 EXCEPT !.errorCalls = @ + 1]

\* ------------------------------------------------------------------------
\* useSSE
\* ------------------------------------------------------------------------

\* cleanup
cleanup(s) ==
    LET s1 == IF s.eventSourceRef # NULL
              THEN [s EXCEPT !.eventSourceRef = NULL, !.esUrl = NULL,
                             !.readyState = "closed",
                             !.teardown = Append(@, "close")]
              ELSE s
        s2 == IF s1.reconnectTimeoutRef # NULL
              THEN [s1 EXCEPT !.reconnectTimeoutRef = NULL,
                              !.teardown = Append(@, "clearTimeout")]
              ELSE s1
    IN  IF s2.mounted THEN [s2 EXCEPT !.isConnected = FALSE] ELSE s2

\* connect, as created by the render the connect effect last ran for
\* (u = "current") or by a render whose effect has been cleaned up since
\* (u = "tornDown"); the EventSource constructor succeeds
connect(s, u) ==
    IF s.isUnmountedRef THEN s
    ELSE IF s.isCompletedRef THEN s
    ELSE IF s.eventSourceRef # NULL THEN s
    ELSE [cleanup(s) EXCEPT !.eventSourceRef = "es", !.esUrl = u,
                            !.readyState = "connecting"]

\* eventSource.onopen
onopen(s) ==
    IF s.isUnmountedRef THEN s
    ELSE LET s1 == IF s.sseError # NULL
                   THEN Mark([s EXCEPT !.sseError = NULL], "sseError")
                   ELSE s
         IN  [s1 EXCEPT !.isConnected = TRUE, !.reconnectAttempt = 0,
                        !.reconnectsScheduled = 0]

\* eventSource.onmessage, reporting a payload that does not parse as an
\* error of the connection
onmessage_MalformedIsError(s, p) ==
    IF s.isUnmountedRef THEN s
    ELSE LET parsedData == ParsePayload(p)
         IN  IF parsedData = ParseError
             THEN sseOnError(Mark([s EXCEPT !.sseError = "SyntaxError"],
                                  "sseError"),
                             "SyntaxError")
             ELSE LET s1 == Mark([s EXCEPT !.sseData = parsedData],
                                 "sseJob")
                  IN  handleUpdate(s1, parsedData)

\* eventSource.onmessage
onmessage(s, p) ==
    IF s.isUnmountedRef THEN s
    ELSE LET parsedData == ParsePayload(p)
         IN  IF parsedData = ParseError THEN s
             ELSE LET s1 == Mark([s EXCEPT !.sseData = parsedData],
                                 "sseJob")
                  IN  handleUpdate(s1, parsedData)

\* the "job_update" listener
job_update(s, p) ==
    IF s.isUnmountedRef THEN s
    ELSE LET parsedData == ParsePayload(p)
         IN  IF parsedData = ParseError THEN s
             ELSE LET s1 == Mark([s EXCEPT !.sseData = parsedData],
                                 "sseJob")
                      s2 == handleUpdate(s1, parsedData)
                  IN  IF parsedData.status = "completed"
                         \/ parsedData.status = "failed"
                      THEN cleanup(handleComplete(
                               [s2 EXCEPT !.isCompletedRef = TRUE],
                               parsedData))
                      ELSE s2

\* the "error" listener
error_listener(s, d) ==
    IF s.isUnmountedRef THEN s
    ELSE LET errorMessage == ErrorEventMessage(d)
             s1 == Mark([s EXCEPT !.sseError = errorMessage], "sseError")
         IN  sseOnError(s1, errorMessage)

\* setTimeout(() => { if (!isUnmountedRef.current) connect() }, reconnectDelay)
scheduleReconnect(s) ==
    [s EXCEPT !.sseOrphanTimers =
                  IF s.reconnectTimeoutRef = "pending" THEN @ + 1 ELSE @,
              !.reconnectTimeoutRef = "pending",
              !.reconnectsScheduled = @ + 1]

\* eventSource.onerror
onerror(s, kind) ==
    IF s.isUnmountedRef THEN s
    ELSE LET msg == ConnectionErrorMessage(kind)
             s1 == Mark([s EXCEPT !.sseError = msg, !.isConnected = FALSE,
                          !.readyState = "connecting"],
                        "sseError")
             s2 == sseOnError(s1, msg)
         IN  IF shouldReconnect(s2, msg)
                /\ s2.connectAttempt < maxReconnectAttempts
             THEN scheduleReconnect(
                      [s2 EXCEPT !.reconnectAttempt = s2.connectAttempt + 1])
             ELSE cleanup(s2)

\* the reconnect timer's callback
reconnectTimer(s, u) == IF ~s.isUnmountedRef THEN connect(s, u) ELSE s

\* the cleanup returned by the connect effect
sseEffectCleanup(s) ==
    LET s1 == cleanup([s EXCEPT !.isUnmountedRef = TRUE,
                                !.sseEffectArmed = FALSE,
                                !.teardown = Append(@, "isUnmounted")])
    IN  [s1 EXCEPT !.tornDownTimers = @ + s1.sseOrphanTimers,
                   !.sseOrphanTimers = 0]

\* the connect effect, deps [url, token]; r is the render it belongs to
sseEffect(r, s) ==
    IF r.token = NULL THEN s
    ELSE connect([s EXCEPT !.isUnmountedRef = FALSE,
                           !.isCompletedRef = FALSE,
                           !.connectAttempt = r.reconnectAttempt,
                           !.sseEffectArmed = TRUE],
                 "current")

\* ------------------------------------------------------------------------
\* usePolling
\* ------------------------------------------------------------------------

\* poll, up to the await: fn() issues the status request
poll(s) == [s EXCEPT !.inFlight = @ + 1]

\* the onComplete / onError options, as the host passes them
onCompleteOption(s, result) ==
    IF s.host = "useExtractionJob" THEN handleComplete(s, result)
    ELSE [s EXCEPT !.completeCalls = @ + 1]

onErrorOption(s, msg) ==
    IF s.host = "useExtractionJob" THEN pollOnError(s, msg) ELSE s

\* timeoutRef.current = setTimeout(poll, delay)
schedulePoll(s) ==
    [s EXCEPT !.pollOrphanTimers =
                  IF s.timeoutRef = "pending" THEN @ + 1 ELSE @,
              !.timeoutRef = "pending"]

\* pollResolved, leaving the consecutive-error counter as it is
pollResolved_NoReset(s, result) ==
    LET s0 == [s EXCEPT !.inFlight = @ - 1, !.failRun = 0, !.pollErrorRun = 0]
        s1 == IF s0.mounted
              THEN Mark(IF s0.pollError # NULL
                        THEN Mark([s0 EXCEPT !.pollData = result,
                                             !.pollError = NULL],
                                  "pollingError")
                        ELSE [s0 EXCEPT !.pollData = result],
                        "pollingJob")
              ELSE s0
    IN  IF isJobComplete(result)
        THEN onCompleteOption(
                 IF s1.mounted THEN [s1 EXCEPT !.isPolling = FALSE] ELSE s1,
                 result)
        ELSE schedulePoll(s1)

\* poll, after fn() resolved with result
pollResolved(s, result) ==
    LET s0 == [s EXCEPT !.inFlight = @ - 1, !.consecutiveErrorsRef = 0,
                        !.failRun = 0, !.pollErrorRun = 0]
        s1 == IF s0.mounted
              THEN Mark(IF s0.pollError # NULL
                        THEN Mark([s0 EXCEPT !.pollData = result,
                                             !.pollError = NULL],
                                  "pollingError")
                        ELSE [s0 EXCEPT !.pollData = result],
                        "pollingJob")
              ELSE s0
    IN  IF isJobComplete(result)
        THEN onCompleteOption(
                 IF s1.mounted THEN [s1 EXCEPT !.isPolling = FALSE] ELSE s1,
                 result)
        ELSE schedulePoll(s1)

\* pollRejected, giving up one failure late (> for >=)
pollRejected_OffByOne(s) ==
    LET s0 == [s EXCEPT !.inFlight = @ - 1, !.consecutiveErrorsRef = @ + 1,
                        !.failRun = @ + 1]
        s1 == IF s0.mounted
              THEN Mark([s0 EXCEPT !.pollError = PollFailureMessage],
                        "pollingError")
              ELSE s0
        s2 == onErrorOption([s1 EXCEPT !.pollErrorRun = @ + 1],
                            PollFailureMessage)
    IN  IF s2.maxConsecutiveErrors > 0
           /\ s2.consecutiveErrorsRef > s2.maxConsecutiveErrors
        THEN (IF s2.mounted THEN [s2 EXCEPT !.isPolling = FALSE] ELSE s2)
        ELSE schedulePoll(s2)

\* poll, after fn() rejected
pollRejected(s) ==
    LET s0 == [s EXCEPT !.inFlight = @ - 1, !.consecutiveErrorsRef = @ + 1,
                        !.failRun = @ + 1]
        s1 == IF s0.mounted
              THEN Mark([s0 EXCEPT !.pollError = PollFailureMessage],
                        "pollingError")
              ELSE s0
        s2 == onErrorOption([s1 EXCEPT !.pollErrorRun = @ + 1],
                            PollFailureMessage)
    IN  IF s2.maxConsecutiveErrors > 0
           /\ s2.consecutiveErrorsRef >= s2.maxConsecutiveErrors
        THEN (IF s2.mounted THEN [s2 EXCEPT !.isPolling = FALSE] ELSE s2)
        ELSE schedulePoll(s2)

\* startPolling
startPolling(s) ==
    LET s1 == IF s.mounted
              THEN (IF s.pollError # NULL
                    THEN Mark([s EXCEPT !.isPolling = TRUE,
                                        !.pollError = NULL], "pollingError")
                    ELSE [s EXCEPT !.isPolling = TRUE])
              ELSE s
    IN  poll([s1 EXCEPT !.consecutiveErrorsRef = 0, !.pollStarts = @ + 1,
                        !.failRun = 0, !.pollErrorRun = 0])

\* stopPolling; clearTimeout leaves the timer id in timeoutRef
stopPolling(s) ==
    LET s1 == IF s.timeoutRef # NULL
              THEN [s EXCEPT !.timeoutRef = "stale"]
              ELSE s
    IN  IF s1.mounted THEN [s1 EXCEPT !.isPolling = FALSE] ELSE s1

\* the effect with deps [enabled]; enabled = usePollingFallback && !!jobId
pollingEffect(r, s) ==
    IF r.usePollingFallback THEN startPolling(s) ELSE s

\* ------------------------------------------------------------------------
\* useExtractionJob: effects, retry
\* ------------------------------------------------------------------------

\* isSSESupported
isSSESupported == TRUE

setConnectionType(s, v) ==
    IF s.connectionType = v THEN s
    ELSE Mark([s EXCEPT !.connectionType = v], "connectionType")

\* "Determine connection type and active data source" effect
connectionTypeEffect(r, s) ==
    LET sseSupported == isSSESupported
        sseEnabled   == r.enableSSE /\ r.token # NULL /\ ~r.usePollingFallback
    IN  IF sseEnabled /\ sseSupported
        THEN LET s1 == setConnectionType(s, "sse")
             IN  IF r.sseData # NoJob THEN handleUpdate(s1, r.sseData) ELSE s1
        ELSE IF r.usePollingFallback \/ ~sseSupported \/ ~r.enableSSE
        THEN LET s1 == setConnectionType(s, "polling")
             IN  IF r.pollData # NoJob THEN handleUpdate(s1, r.pollData) ELSE s1
        ELSE setConnectionType(s, "none")

\* "Set error state" effect
errorEffect(r, s) ==
    IF r.connectionType = "sse" /\ r.sseError # NULL
    THEN [s EXCEPT !.error = r.sseError]
    ELSE IF r.connectionType = "polling" /\ r.pollError # NULL
    THEN [s EXCEPT !.error = r.pollError]
    ELSE s

\* retry, restarting polling without the reset of its error counter
retry_KeepsErrorCount(s) ==
    LET s1 == [s EXCEPT !.hasCompletedRef = FALSE, !.error = NULL]
    IN  IF s.connectionType = "polling"
        THEN [startPolling(s1) EXCEPT
                 !.consecutiveErrorsRef = s.consecutiveErrorsRef]
        ELSE IF ~s1.usePollingFallback
        THEN Mark([s1 EXCEPT !.usePollingFallback = TRUE],
                  "usePollingFallback")
        ELSE s1

\* retry, re-arming the live channel instead of forcing polling
retry_RearmsLive(s) ==
    LET s1 == [s EXCEPT !.hasCompletedRef = FALSE, !.error = NULL]
    IN  IF s1.usePollingFallback
        THEN Mark([s1 EXCEPT !.usePollingFallback = FALSE],
                  "usePollingFallback")
        ELSE s1

\* retry
retry(s) ==
    LET s1 == [s EXCEPT !.hasCompletedRef = FALSE, !.error = NULL]
    IN  IF s.connectionType = "polling" THEN startPolling(s1)
        ELSE IF ~s1.usePollingFallback
        THEN Mark([s1 EXCEPT !.usePollingFallback = TRUE],
                  "usePollingFallback")
        ELSE s1

\* loadToken, treating a missing credential as an error
loadToken_MissingIsError(s, accessToken) ==
    LET s1 == [s EXCEPT !.tokenLoading = FALSE]
    IN  IF ~s1.mounted THEN s1
        ELSE IF accessToken # NULL
        THEN Mark([s1 EXCEPT !.token = accessToken], "token")
        ELSE [s1 EXCEPT !.error = "No access token",
                        !.errorCalls = @ + 1]

\* loadToken, after getAccessToken() settled with accessToken
loadToken(s, accessToken) ==
    LET s1 == [s EXCEPT !.tokenLoading = FALSE]
    IN  IF s1.mounted /\ accessToken # NULL
        THEN Mark([s1 EXCEPT !.token = accessToken], "token")
        ELSE s1

\* the React commit after a task: re-render, then the cleanups and the
\* bodies of the effects whose dependencies changed, in hook order; state
\* set by an effect causes a further render
RECURSIVE Commit(_)
Commit(s) ==
    IF s.dirty = {} \/ ~s.mounted \/ s.host # "useExtractionJob"
    THEN [s EXCEPT !.dirty = {}]
    ELSE LET d  == s.dirty
             r  == [s EXCEPT !.dirty = {}]
             c1 == IF d \cap {"url", "token"} # {} /\ r.sseEffectArmed
                   THEN sseEffectCleanup(r) ELSE r
             c2 == IF "usePollingFallback" \in d THEN stopPolling(c1) ELSE c1
             e1 == IF d \cap {"url", "token"} # {}
                   THEN sseEffect(r, c2) ELSE c2
             e2 == IF "usePollingFallback" \in d
                   THEN pollingEffect(r, e1) ELSE e1
             e3 == IF d \cap {"token", "usePollingFallback", "sseJob",
                              "pollingJob"} # {}
                   THEN connectionTypeEffect(r, e2) ELSE e2
             e4 == IF d \cap {"connectionType", "sseError",
                              "pollingError"} # {}
                   THEN errorEffect(r, e3) ELSE e3
         IN  Commit(e4)

\* unmounting the component that uses the coordinator
unmount(s) ==
    LET c1 == IF s.sseEffectArmed THEN sseEffectCleanup(s) ELSE s
        c2 == stopPolling(c1)
    IN  [c2 EXCEPT !.mounted = FALSE, !.dirty = {}]

\* ------------------------------------------------------------------------
\* the state machine
\* ------------------------------------------------------------------------

\* usePolling was started at most once, nothing has completed and the live
\* channel has scheduled no reconnect: the part of a session in which a run
\* of rejected fetches is followed up to the coordinator's error budget
FirstLoop(n) ==
    n.pollStarts <= 1 /\ n.completeCalls = 0 /\ n.reconnectsScheduled <= 1
        /\ n.sseOrphanTimers = 0 /\ n.tornDownTimers = 0

WithinBounds(n) ==
    /\ n.sseOrphanTimers <= MaxOrphanTimers
    /\ n.tornDownTimers <= MaxOrphanTimers
    /\ n.pollOrphanTimers <= MaxOrphanTimers
    /\ n.inFlight <= MaxInFlight
    /\ n.completeCalls <= MaxCalls
    /\ n.reconnectsScheduled <= MaxScheduled
    /\ n.pollStarts <= MaxStarts
    /\ n.failRun <= (IF n.host = "screen" THEN MaxBudget
                     ELSE IF FirstLoop(n) THEN n.maxConsecutiveErrors
                     ELSE MaxFailRun)


\* the step a task makes: its result s is committed, and the state reached
\* becomes the next state when it is within the bounds
Finish(s) ==
    \E done \in {s} :
        \E n \in {Commit(done)} : WithinBounds(n) /\ Become(n)

\* state after the first render and its effects: no token yet, polling
\* not enabled, the token request in flight
Init ==
    /\ enableSSE \in BOOLEAN
    /\ jobId = 1 /\ esUrl = NULL /\ tornDownTimers = 0
    /\ mounted = TRUE /\ tokenLoading = TRUE /\ token = NULL
    /\ job = NoJob /\ error = NULL
    /\ connectionType = (IF enableSSE THEN "none" ELSE "polling")
    /\ usePollingFallback = FALSE /\ hasCompletedRef = FALSE
    /\ sseData = NoJob /\ sseError = NULL /\ isConnected = FALSE
    /\ reconnectAttempt = 0 /\ eventSourceRef = NULL
    /\ readyState = "closed" /\ reconnectTimeoutRef = NULL
    /\ sseOrphanTimers = 0 /\ isUnmountedRef = FALSE
    /\ isCompletedRef = FALSE /\ connectAttempt = 0
    /\ sseEffectArmed = FALSE
    /\ host = "useExtractionJob"
    /\ maxConsecutiveErrors = CoordinatorMaxConsecutiveErrors
    /\ pollData = NoJob /\ pollError = NULL /\ isPolling = FALSE
    /\ timeoutRef = NULL /\ pollOrphanTimers = 0
    /\ consecutiveErrorsRef = 0 /\ inFlight = 0
    /\ completeCalls = 0 /\ reconnectsScheduled = 0 /\ pollStarts = 0
    /\ failRun = 0 /\ pollErrorRun = 0
    /\ ApiModuleLoaded

\* tokenManager.getAccessToken() settles; setToken(accessToken)
LoadToken ==
    /\ tokenLoading
    /\ \E accessToken \in {NULL, "tok"} :
         Finish(loadToken(State, accessToken))

\* the transport reports the stream open
EsOpen ==
    /\ eventSourceRef # NULL /\ readyState = "connecting"
    /\ Finish(onopen([State EXCEPT !.readyState = "open"]))

\* the stream delivers an untyped message event
EsMessage ==
    /\ eventSourceRef # NULL /\ readyState = "open"
    /\ \E p \in Payloads : Finish(onmessage(State, p))

\* the stream delivers a job_update event
EsJobUpdate ==
    /\ eventSourceRef # NULL /\ readyState = "open"
    /\ \E p \in Payloads : Finish(job_update(State, p))

\* an "error" event reaches the listener
EsErrorEvent ==
    /\ eventSourceRef # NULL
    /\ \E d \in ErrorEventData :
         Finish(error_listener(State, d))

\* the connection fails: onerror
EsOnError ==
    /\ eventSourceRef # NULL
    /\ \E kind \in ConnectionFailures :
         Finish(onerror(State, kind))

\* a pending reconnect timer fires: the one reconnectTimeoutRef names ...
ReconnectTimerFires ==
    /\ reconnectTimeoutRef = "pending"
    /\ Finish(reconnectTimer(
           [State EXCEPT
               !.reconnectTimeoutRef = "stale"], "current"))

\* ... or one whose id was overwritten by a later setTimeout
OrphanReconnectTimerFires ==
    /\ sseOrphanTimers > 0
    /\ Finish(reconnectTimer(
           [State EXCEPT
               !.sseOrphanTimers = @ - 1], "current"))

\* ... or one set for a connection that the effect cleanup has torn down
\* since; its connect belongs to the render that created that connection
TornDownReconnectTimerFires ==
    /\ tornDownTimers > 0
    /\ Finish(reconnectTimer(
           [State EXCEPT
               !.tornDownTimers = @ - 1], "tornDown"))

\* extractionService.getJob resolves
FetchResolves ==
    /\ inFlight > 0
    /\ \E result \in Snapshots :
         Finish(pollResolved(State, result))

\* extractionService.getJob rejects
FetchRejects ==
    /\ inFlight > 0
    /\ Finish(pollRejected(State))

\* a pending poll timer fires: the one timeoutRef names ...
PollTimerFires ==
    /\ timeoutRef = "pending"
    /\ Finish(poll([State EXCEPT !.timeoutRef = "stale"]))

\* ... or one whose id was overwritten by a later setTimeout
OrphanPollTimerFires ==
    /\ pollOrphanTimers > 0
    /\ Finish(poll([State EXCEPT
                       !.pollOrphanTimers = @ - 1]))

\* the consumer calls retry()
Retry ==
    /\ mounted
    /\ Finish(retry(State))

\* the consumer re-renders the coordinator with another job identifier:
\* the url given to useSSE changes
ChangeJob ==
    /\ mounted /\ jobId < MaxJobs
    /\ Finish(Mark([State EXCEPT !.jobId = @ + 1], "url"))

\* the consumer unmounts
Unmount ==
    /\ mounted
    /\ Finish(unmount(State))

Next ==
    \/ LoadToken
    \/ EsOpen
    \/ EsMessage
    \/ EsJobUpdate
    \/ EsErrorEvent
    \/ EsOnError
    \/ ReconnectTimerFires
    \/ OrphanReconnectTimerFires
    \/ TornDownReconnectTimerFires
    \/ FetchResolves
    \/ FetchRejects
    \/ PollTimerFires
    \/ OrphanPollTimerFires
    \/ Retry
    \/ Unmount

\* one tracking session with a fixed configuration
Spec == Init /\ [][Next]_vars

\* a coordinator whose consumer replaces the job identifier and never calls
\* retry()
NextJobChange ==
    \/ ChangeJob
    \/ LoadToken
    \/ EsOpen
    \/ EsMessage
    \/ EsJobUpdate
    \/ EsErrorEvent
    \/ EsOnError
    \/ ReconnectTimerFires
    \/ OrphanReconnectTimerFires
    \/ TornDownReconnectTimerFires
    \/ FetchResolves
    \/ FetchRejects
    \/ PollTimerFires
    \/ Unmount

SpecJobChange == Init /\ [][NextJobChange]_vars

TypeOK ==
    /\ connectionType \in {"none", "sse", "polling"}
    /\ job \in Snapshots \cup {NoJob}
    /\ inFlight \in 0..MaxInFlight
    /\ consecutiveErrorsRef \in 0..CoordinatorMaxConsecutiveErrors

\* ------------------------------------------------------------------------
\* usePolling on its own
\* ------------------------------------------------------------------------

\* state after the screen's first render and its effects: enabled is true,
\* so the effect has called startPolling
InitPolling ==
    /\ enableSSE = FALSE
    /\ jobId = 1 /\ esUrl = NULL /\ tornDownTimers = 0
    /\ mounted = TRUE /\ tokenLoading = FALSE /\ token = NULL
    /\ job = NoJob /\ error = NULL /\ connectionType = "none"
    /\ usePollingFallback = FALSE /\ hasCompletedRef = FALSE
    /\ sseData = NoJob /\ sseError = NULL /\ isConnected = FALSE
    /\ reconnectAttempt = 0 /\ eventSourceRef = NULL
    /\ readyState = "closed" /\ reconnectTimeoutRef = NULL
    /\ sseOrphanTimers = 0 /\ isUnmountedRef = FALSE
    /\ isCompletedRef = FALSE /\ connectAttempt = 0
    /\ sseEffectArmed = FALSE
    /\ host = "screen"
    /\ maxConsecutiveErrors \in 0..MaxBudget
    /\ pollData = NoJob /\ pollError = NULL /\ isPolling = TRUE
    /\ timeoutRef = NULL /\ pollOrphanTimers = 0
    /\ consecutiveErrorsRef = 0 /\ inFlight = 1
    /\ completeCalls = 0 /\ reconnectsScheduled = 0 /\ pollStarts = 1
    /\ failRun = 0 /\ pollErrorRun = 0
    /\ ApiModuleLoaded

\* the screen calls startPolling (its retry button)
StartPolling ==
    /\ host = "screen" /\ mounted
    /\ Finish(startPolling(State))

\* the screen calls stopPolling
StopPolling ==
    /\ host = "screen" /\ mounted
    /\ Finish(stopPolling(State))

NextPolling ==
    \/ FetchResolves
    \/ FetchRejects
    \/ PollTimerFires
    \/ OrphanPollTimerFires
    \/ StartPolling
    \/ StopPolling
    \/ Unmount

SpecPolling == InitPolling /\ [][NextPolling]_vars

\* ------------------------------------------------------------------------
\* api-client: the token refresh queue
\* ------------------------------------------------------------------------

\* the API client's state as one record
Api ==
    [ isRefreshing |-> isRefreshing, failedQueue |-> failedQueue,
      requests |-> requests, accessTokenStore |-> accessTokenStore,
      refreshTokenStore |-> refreshTokenStore, expiryStore |-> expiryStore,
      refreshResponse |-> refreshResponse,
      redirectedToLogin |-> redirectedToLogin ]

ApiBecome(a) ==
    /\ isRefreshing' = a.isRefreshing /\ failedQueue' = a.failedQueue
    /\ requests' = a.requests
    /\ accessTokenStore' = a.accessTokenStore
    /\ refreshTokenStore' = a.refreshTokenStore
    /\ expiryStore' = a.expiryStore
    /\ refreshResponse' = a.refreshResponse
    /\ redirectedToLogin' = a.redirectedToLogin
    /\ UNCHANGED << jobId, enableSSE, mounted, tokenLoading, token, job,
                    error, connectionType, usePollingFallback,
                    hasCompletedRef, sseData, sseError, isConnected,
                    reconnectAttempt, eventSourceRef, esUrl, readyState,
                    reconnectTimeoutRef, sseOrphanTimers, tornDownTimers,
                    isUnmountedRef, isCompletedRef, connectAttempt,
                    sseEffectArmed, host, maxConsecutiveErrors, pollData,
                    pollError, isPolling, timeoutRef, pollOrphanTimers,
                    consecutiveErrorsRef, inFlight, completeCalls,
                    reconnectsScheduled, pollStarts, failRun, pollErrorRun >>

\* the errors a request's promise is rejected with
RefreshErrors ==
    {"No refresh token available", "refresh rejected", "Token refresh failed"}

\* the elements of the queue
Queued(q) == {q[i] : i \in DOMAIN q}

\* apiClient(originalRequest): the request goes out (again)
send(a, r) == [a EXCEPT !.requests[r].pc = "sent"]

\* the promise returned to the caller of request r rejects
rejectRequest(a, r, err) ==
    [a EXCEPT !.requests[r].pc = "rejected",
              !.requests[r].rejectedWith = err]

\* processQueue: every parked promise is rejected with error or, when error
\* is null, resolved, and its then() sends the request again; the queue is
\* emptied
processQueue(a, err) ==
    [a EXCEPT !.failedQueue = << >>,
              !.requests =
                  [r \in Requests |->
                      IF r \in Queued(a.failedQueue)
                      THEN (IF err # NULL
                            THEN [@[r] EXCEPT !.pc = "rejected",
                                              !.rejectedWith = err]
                            ELSE [@[r] EXCEPT !.pc = "sent"])
                      ELSE @[r]]]

\* finally { isRefreshing = false }
finally(a) == [a EXCEPT !.isRefreshing = FALSE]

\* catch (refreshError), up to the await of handleAuthFailure, or to the
\* end when the redirect is skipped
catchRefreshError(a, r, refreshError) ==
    LET a1 == processQueue(a, refreshError)
    IN  IF ~a1.requests[r].skipAuthRedirect
        THEN [a1 EXCEPT !.requests[r].pc = "handleAuthFailure",
                        !.requests[r].rejectedWith = refreshError]
        ELSE finally(rejectRequest(a1, r, refreshError))

\* handleAuthFailure, after clearTokens() settled: the alert and the
\* redirect
handleAuthFailure(a) ==
    [a EXCEPT !.accessTokenStore = NULL, !.refreshTokenStore = NULL,
              !.expiryStore = NULL, !.redirectedToLogin = TRUE]

\* the response interceptor's error handler for a 401, never raising
\* isRefreshing
responseError401_NoFlag(a, r) ==
    LET originalRequest == a.requests[r]
        shouldAttemptRefresh ==
            ~originalRequest._retry /\ ~originalRequest.skipAuthRetry
    IN  IF shouldAttemptRefresh
        THEN IF a.isRefreshing
             THEN [a EXCEPT !.failedQueue = Append(@, r),
                            !.requests[r].pc = "queued"]
             ELSE [a EXCEPT !.requests[r]._retry = TRUE,
                            !.requests[r].pc = "getRefreshToken"]
        ELSE rejectRequest(a, r, "ApiError")

\* the response interceptor's error handler, for a response with status
\* 401, up to its first await
responseError401(a, r) ==
    LET originalRequest == a.requests[r]
        shouldAttemptRefresh ==
            ~originalRequest._retry /\ ~originalRequest.skipAuthRetry
    IN  IF shouldAttemptRefresh
        THEN IF a.isRefreshing
             THEN [a EXCEPT !.failedQueue = Append(@, r),
                            !.requests[r].pc = "queued"]
             ELSE [a EXCEPT !.requests[r]._retry = TRUE,
                            !.isRefreshing = TRUE,
                            !.requests[r].pc = "getRefreshToken"]
        ELSE rejectRequest(a, r, "ApiError")

\* ... after tokenManager.getRefreshToken() settled
afterGetRefreshToken(a, r) ==
    LET refreshToken == a.refreshTokenStore
    IN  IF refreshToken = NULL
        THEN catchRefreshError(a, r, "No refresh token available")
        ELSE [a EXCEPT !.requests[r].pc = "postRefresh"]

\* ... after apiClient.post("/auth/refresh") resolved with access_token
afterRefreshResolved(a, r, access_token) ==
    [a EXCEPT !.requests[r].pc = "setTokens",
              !.refreshResponse = access_token]

\* ... after apiClient.post("/auth/refresh") rejected
afterRefreshRejected(a, r) == catchRefreshError(a, r, "refresh rejected")

\* ... after tokenManager.setTokens() settled
afterSetTokens(a, r) ==
    [a EXCEPT !.accessTokenStore = a.refreshResponse,
              !.refreshTokenStore = "rt", !.expiryStore = "set",
              !.refreshResponse = NULL,
              !.requests[r].pc = "getAccessToken"]

\* ... after tokenManager.getAccessToken() settled: an empty token is falsy
afterGetAccessToken(a, r) ==
    LET accessToken == a.accessTokenStore
    IN  IF accessToken # NULL /\ accessToken # ""
        THEN finally(send(processQueue(a, NULL), r))
        ELSE catchRefreshError(a, r, "Token refresh failed")

\* ... after handleAuthFailure() settled
afterHandleAuthFailure(a, r) ==
    finally(rejectRequest(handleAuthFailure(a), r,
                          a.requests[r].rejectedWith))

\* the application issues a request through apiClient with some config
ApiRequest(r) ==
    /\ requests[r].pc = "idle"
    /\ \A q \in Requests : q < r => requests[q].pc # "idle"
    /\ \E config \in [skipAuthRedirect : BOOLEAN, skipAuthRetry : BOOLEAN] :
         ApiBecome(send([Api EXCEPT
                             !.requests[r].skipAuthRedirect =
                                 config.skipAuthRedirect,
                             !.requests[r].skipAuthRetry =
                                 config.skipAuthRetry], r))

\* the server answers a request with a 2xx or 3xx
ResponseOk(r) ==
    /\ requests[r].pc = "sent"
    /\ ApiBecome([Api EXCEPT !.requests[r].pc = "resolved"])

\* the server answers a request with 401
Response401(r) ==
    /\ requests[r].pc = "sent"
    /\ ApiBecome(responseError401(Api, r))

\* a request fails otherwise (another status, no response)
ResponseOtherError(r) ==
    /\ requests[r].pc = "sent"
    /\ ApiBecome(rejectRequest(Api, r, "ApiError"))

GetRefreshTokenSettles(r) ==
    /\ requests[r].pc = "getRefreshToken"
    /\ ApiBecome(afterGetRefreshToken(Api, r))

RefreshResolves(r) ==
    /\ requests[r].pc = "postRefresh"
    /\ \E access_token \in {"fresh", ""} :
         ApiBecome(afterRefreshResolved(Api, r, access_token))

RefreshRejects(r) ==
    /\ requests[r].pc = "postRefresh"
    /\ ApiBecome(afterRefreshRejected(Api, r))

SetTokensSettles(r) ==
    /\ requests[r].pc = "setTokens"
    /\ ApiBecome(afterSetTokens(Api, r))

GetAccessTokenSettles(r) ==
    /\ requests[r].pc = "getAccessToken"
    /\ ApiBecome(afterGetAccessToken(Api, r))

HandleAuthFailureSettles(r) ==
    /\ requests[r].pc = "handleAuthFailure"
    /\ ApiBecome(afterHandleAuthFailure(Api, r))

\* the hooks are not part of this specification: their variables stay as
\* they are before anything is mounted
HooksNotMounted ==
    /\ enableSSE = TRUE
    /\ jobId = 1 /\ esUrl = NULL /\ tornDownTimers = 0
    /\ mounted = FALSE /\ tokenLoading = FALSE /\ token = NULL
    /\ job = NoJob /\ error = NULL /\ connectionType = "none"
    /\ usePollingFallback = FALSE /\ hasCompletedRef = FALSE
    /\ sseData = NoJob /\ sseError = NULL /\ isConnected = FALSE
    /\ reconnectAttempt = 0 /\ eventSourceRef = NULL
    /\ readyState = "closed" /\ reconnectTimeoutRef = NULL
    /\ sseOrphanTimers = 0 /\ isUnmountedRef = FALSE
    /\ isCompletedRef = FALSE /\ connectAttempt = 0
    /\ sseEffectArmed = FALSE
    /\ host = "none"
    /\ maxConsecutiveErrors = 0
    /\ pollData = NoJob /\ pollError = NULL /\ isPolling = FALSE
    /\ timeoutRef = NULL /\ pollOrphanTimers = 0
    /\ consecutiveErrorsRef = 0 /\ inFlight = 0
    /\ completeCalls = 0 /\ reconnectsScheduled = 0 /\ pollStarts = 0
    /\ failRun = 0 /\ pollErrorRun = 0

\* the module is loaded; the secure store holds an access token that the
\* server may reject, and a refresh token or none
InitApi ==
    /\ HooksNotMounted
    /\ isRefreshing = FALSE /\ failedQueue = << >>
    /\ requests = [r \in Requests |-> IdleRequest]
    /\ accessTokenStore = "expired"
    /\ refreshTokenStore \in {NULL, "rt"}
    /\ expiryStore = "set"
    /\ refreshResponse = NULL /\ redirectedToLogin = FALSE

NextApi ==
    \E r \in Requests :
        \/ ApiRequest(r)
        \/ ResponseOk(r)
        \/ Response401(r)
        \/ ResponseOtherError(r)
        \/ GetRefreshTokenSettles(r)
        \/ RefreshResolves(r)
        \/ RefreshRejects(r)
        \/ SetTokensSettles(r)
        \/ GetAccessTokenSettles(r)
        \/ HandleAuthFailureSettles(r)

SpecApi == InitApi /\ [][NextApi]_vars

\* ------------------------------------------------------------------------
\* properties
\* ------------------------------------------------------------------------

PendingReconnectTimers ==
    (IF reconnectTimeoutRef = "pending" THEN 1 ELSE 0) + sseOrphanTimers
        + tornDownTimers

PendingPollTimers ==
    (IF timeoutRef = "pending" THEN 1 ELSE 0) + pollOrphanTimers

\* some transport has delivered a snapshot with status completed or failed
TerminalDelivered ==
    isJobComplete(job) \/ isJobComplete(sseData) \/ isJobComplete(pollData)

\* C1: in one tracking session the consumer's onComplete fires exactly once
\* when a terminal snapshot has been delivered by either transport: on the
\* first one, and never again for later terminal snapshots.
C1_CompletionExactlyOnce ==
    /\ completeCalls <= 1
    /\ TerminalDelivered => completeCalls = 1

\* C2: retry() after the completion callback was dispatched is a no-op: the
\* latch stays set, no transport is newly engaged (no fetch issued, no
\* fallback switched on, no connection opened), and onComplete is never
\* invoked a second time.
C2_RetryAfterCompletionIsNoOp ==
    /\ [](completeCalls <= 1)
    /\ [][(completeCalls >= 1 /\ hasCompletedRef /\ Retry)
            => /\ hasCompletedRef'
               /\ inFlight' = inFlight
               /\ pollStarts' = pollStarts
               /\ usePollingFallback' = usePollingFallback
               /\ eventSourceRef' = eventSourceRef]_vars

\* C3: with no successful open in between, the live channel never schedules
\* more than maxReconnectAttempts reconnects.
C3_ReconnectBudget == reconnectsScheduled <= maxReconnectAttempts

\* C4: once the live channel has received an update whose status is
\* completed or failed, its connection is closed, no reconnect timer is
\* pending and none is opened or scheduled afterwards.
C4_TerminalUpdateStopsChannel ==
    isJobComplete(sseData)
        => (eventSourceRef = NULL /\ PendingReconnectTimers = 0)

\* C5: usePolling started once with maxConsecutiveErrors = N > 0: there are
\* never more than N rejected fetches in a row, and after the N-th polling
\* has halted (no fetch in flight, no poll timer pending, isPolling false)
\* with onError invoked exactly N times.
C5_GiveUpAfterBudget ==
    (pollStarts = 1 /\ maxConsecutiveErrors > 0)
        => /\ failRun <= maxConsecutiveErrors
           /\ failRun = maxConsecutiveErrors
                => /\ inFlight = 0
                   /\ PendingPollTimers = 0
                   /\ pollErrorRun = maxConsecutiveErrors
                   /\ mounted => ~isPolling

\* usePolling gave up after maxConsecutiveErrors = 2 failures in a row
C5_Witness ==
    /\ host = "screen" /\ pollStarts = 1 /\ maxConsecutiveErrors = 2
    /\ failRun = 2 /\ pollErrorRun = 2 /\ inFlight = 0 /\ ~isPolling
    /\ mounted

\* C6: every resolved fetch resets the consecutive-error counter to zero,
\* the counter never exceeds the number of fetches rejected since the last
\* resolved one, and a rejected fetch ends the loop without scheduling
\* another poll only when that number has reached maxConsecutiveErrors > 0.
C6_CounterResetsOnSuccess ==
    /\ [](consecutiveErrorsRef <= failRun)
    /\ [][FetchResolves => consecutiveErrorsRef' = 0]_vars
    /\ [][FetchRejects
            => \/ PendingPollTimers' = PendingPollTimers + 1
               \/ /\ maxConsecutiveErrors > 0
                  /\ failRun' >= maxConsecutiveErrors]_vars

\* a fetch was rejected after an earlier one had resolved, and polling goes
\* on: the counter shows one failure, below the budget of two
C6_Witness ==
    /\ host = "screen" /\ maxConsecutiveErrors = 2 /\ pollStarts = 1
    /\ pollData # NoJob /\ pollError # NULL
    /\ consecutiveErrorsRef = 1 /\ timeoutRef = "pending"

\* C7: cleanup and stopPolling are idempotent, and one call leaves no
\* connection handle, no pending timer, not connected / not polling.
C7_StopIsIdempotent ==
    LET c == cleanup(State)
        p == stopPolling(State)
    IN  /\ cleanup(c) = c
        /\ stopPolling(p) = p
        /\ c.eventSourceRef = NULL
        /\ c.reconnectTimeoutRef # "pending" /\ c.sseOrphanTimers = 0
        /\ c.tornDownTimers = 0
        /\ c.mounted => ~c.isConnected
        /\ p.timeoutRef # "pending" /\ p.pollOrphanTimers = 0
        /\ p.mounted => ~p.isPolling

\* onerror fires for a connection refused with 401 or 403
EsAuthFailure ==
    /\ eventSourceRef # NULL
    /\ \E kind \in {k \in ConnectionFailures : IsAuthFailure(k)} :
         Finish(onerror(State, kind))

\* C8: an authorization failure (401 / 403) on the connection schedules no
\* reconnect and the live channel stops: the connection is closed.
C8_AuthFailureStopsChannel ==
    [][EsAuthFailure
         => /\ PendingReconnectTimers' <= PendingReconnectTimers
            /\ reconnectTimeoutRef' # "pending"
            /\ eventSourceRef' = NULL]_vars

\* the live channel was stopped by onerror: the effect is armed, the client
\* neither torn down nor completed, and the handle is gone
SseStoppedOnError ==
    /\ sseEffectArmed /\ ~isUnmountedRef /\ ~isCompletedRef
    /\ eventSourceRef = NULL

\* C9: when the live channel has reported an error to the coordinator (an
\* authorization failure included) or has stopped for good on one, the
\* coordinator reports polling as its transport and usePolling has been
\* started, which issues a status fetch.
C9_FallbackToPolling ==
    (mounted /\ (sseError # NULL \/ SseStoppedOnError))
        => /\ connectionType = "polling"
           /\ usePollingFallback
           /\ pollStarts >= 1

\* the live channel stopped on an error and the fetch of the fallback is
\* in flight
C9_Witness ==
    /\ SseStoppedOnError /\ mounted /\ sseError # NULL
    /\ connectionType = "polling" /\ isPolling /\ inFlight = 1
    /\ pollStarts = 1

\* C10: whenever the polling transport is active (the coordinator reports
\* polling and the fetch loop of usePolling is running) the live channel has
\* no open connection and no pending reconnect timer.
C10_TransportsExclusive ==
    (connectionType = "polling" /\ isPolling)
        => (eventSourceRef = NULL /\ PendingReconnectTimers = 0)

\* C11: while the coordinator reports sse, a connection error for which a
\* reconnect is scheduled leaves it in sse: it does not move to polling.
C11_RecoverableErrorStaysLive ==
    [][(connectionType = "sse" /\ EsOnError
          /\ reconnectTimeoutRef' = "pending")
         => connectionType' = "sse"]_vars

\* C12: with a fixed configuration, once the coordinator reports polling it
\* never reports sse again, whatever happens next, retry() included.
C12_PollingNeverBackToLive ==
    [][connectionType = "polling" => connectionType' # "sse"]_vars

\* retry() was called while polling was the transport and the live
\* connection, which the fallback left alone, is open again
C12_Witness ==
    /\ mounted /\ enableSSE /\ token # NULL
    /\ connectionType = "polling" /\ usePollingFallback
    /\ isConnected /\ eventSourceRef # NULL
    /\ pollStarts = 2

\* C13: a coordinator constructed with enableSSE = false reports polling,
\* usePolling has been started (a status fetch was issued) and no live
\* connection is opened; stated of the states in which the credential
\* request has settled.
C13_DisabledLiveMeansPolling ==
    (mounted /\ ~enableSSE /\ ~tokenLoading)
        => /\ connectionType = "polling"
           /\ pollStarts >= 1
           /\ eventSourceRef = NULL

\* C14 as stated: as long as no access token has been returned, no live
\* connection is opened and the coordinator reports none.
C14_NoneUntilToken ==
    token = NULL => (eventSourceRef = NULL /\ connectionType = "none")

\* C14, amended: as long as no access token has been returned no live
\* connection is opened and no reconnect is pending; unless the live channel
\* is disabled or retry() has forced polling, the coordinator reports none,
\* has no error and has started no transport; and when the provider returns
\* no token nothing changes: no error is set, onError is not invoked and the
\* reported transport stays what it was.
C14_NoTokenNoLiveNoError ==
    /\ token = NULL
         => (eventSourceRef = NULL /\ PendingReconnectTimers = 0
             /\ ~isConnected /\ sseError = NULL)
    /\ (token = NULL /\ enableSSE /\ ~usePollingFallback)
         => (connectionType = "none" /\ error = NULL /\ pollStarts = 0)
    /\ tokenLoading
         => LET n == Commit(loadToken(State, NULL))
            IN  /\ n.errorCalls = 0
                /\ n.error = error
                /\ n.connectionType = connectionType
                /\ n.eventSourceRef = NULL
                /\ n.token = NULL

\* the provider has returned no token: the coordinator sits in none
C14_Witness ==
    /\ mounted /\ enableSSE /\ ~tokenLoading /\ token = NULL
    /\ ~usePollingFallback /\ connectionType = "none" /\ error = NULL

\* what a handler of the live channel did to the hooks' state, to the
\* connection and by way of callbacks, once its commit is done
SseOutcome(n) ==
    [ data |-> n.sseData, error |-> n.sseError, job |-> n.job,
      completeCalls |-> n.completeCalls, errorCalls |-> n.errorCalls,
      hasCompletedRef |-> n.hasCompletedRef,
      isCompletedRef |-> n.isCompletedRef,
      eventSourceRef |-> n.eventSourceRef,
      reconnectTimeoutRef |-> n.reconnectTimeoutRef,
      isConnected |-> n.isConnected ]

\* C15: on an open connection an untyped message event and a job_update
\* event with the same payload have the same outcome: stored data,
\* callbacks, completed flag and connection.
C15_MessageEqualsJobUpdate ==
    (eventSourceRef # NULL /\ readyState = "open")
        => \A p \in Payloads :
             SseOutcome(Commit(onmessage(State, p)))
                 = SseOutcome(Commit(job_update(State, p)))

\* C16: once the connect effect has been cleaned up (unmount, changed url),
\* a reconnect timer left over from the torn-down connection invokes no
\* callback, changes no state of the client and opens no connection.
C16_NothingAfterTeardown ==
    [][TornDownReconnectTimerFires
         => /\ eventSourceRef' = eventSourceRef /\ esUrl' = esUrl
            /\ readyState' = readyState
            /\ sseData' = sseData /\ sseError' = sseError
            /\ isConnected' = isConnected
            /\ job' = job /\ error' = error
            /\ completeCalls' = completeCalls]_vars

\* usePolling has been stopped or torn down and not started again
PollingStopped == ~mounted \/ ~isPolling

\* C17: once usePolling has been stopped (stopPolling, enabled turned off,
\* unmount), the settlement of a fetch that was in flight and the firing of
\* a timer issue no fetch, schedule no poll and invoke neither onComplete
\* nor onError.
C17_NothingAfterStop ==
    [][(PollingStopped
          /\ (FetchResolves \/ FetchRejects \/ PollTimerFires
                \/ OrphanPollTimerFires))
         => /\ inFlight' <= inFlight
            /\ PendingPollTimers' <= PendingPollTimers
            /\ completeCalls' = completeCalls
            /\ pollErrorRun' <= pollErrorRun]_vars

\* in the sequence of steps t, every a comes before every b
Before(t, a, b) ==
    \A i, j \in 1..Len(t) : (t[i] = a /\ t[j] = b) => i < j

\* the steps a teardown of the live channel performs from the current
\* state: by the connect effect's cleanup (unmount, changed url or token)
\* and by a terminal job_update (normal completion)
EffectTeardown == sseEffectCleanup(State).teardown
CompletionTeardown ==
    job_update(State, [isString |-> FALSE, wellFormed |-> TRUE,
                       body |-> [status |-> "completed"]]).teardown

\* C18: every teardown of the live channel cancels the pending reconnect
\* timer before it closes the connection, and sets the unmounted guard only
\* after both.
C18_TeardownOrder ==
    /\ (mounted /\ sseEffectArmed)
         => /\ Before(EffectTeardown, "clearTimeout", "close")
            /\ Before(EffectTeardown, "clearTimeout", "isUnmounted")
            /\ Before(EffectTeardown, "close", "isUnmounted")
    /\ (mounted /\ eventSourceRef # NULL /\ readyState = "open")
         => Before(CompletionTeardown, "clearTimeout", "close")

\* usePolling under the coordinator has used up its consecutive-error budget
PollingGaveUp ==
    /\ host = "useExtractionJob" /\ mounted /\ connectionType = "polling"
    /\ consecutiveErrorsRef >= maxConsecutiveErrors

FailedSnapshot == [status |-> "failed"]
FailedPayloads == {p \in Payloads : ParsePayload(p) = FailedSnapshot}

\* what the delivery of a failed snapshot must have done, n being the state
\* after the handler and its commit: onComplete was called with it if the
\* latch was open and not called otherwise, onError was not called and no
\* error was set
FailedDeliveredAsCompletion(n) ==
    /\ n.errorCalls = 0
    /\ n.error \in {NULL, error}
    /\ mounted => n.error = NULL
    /\ IF hasCompletedRef
       THEN n.completeCalls = completeCalls /\ n.completedWith = NoJob
       ELSE /\ n.completeCalls = completeCalls + 1
            /\ n.completedWith = FailedSnapshot
            /\ n.hasCompletedRef

\* C20: a snapshot whose status is failed, delivered by a fetch or by an
\* event of the live channel, goes through the completion path: onComplete
\* receives it (once, subject to the latch), onError is not invoked and the
\* coordinator's error is not set.
C20_FailedIsCompletion ==
    /\ inFlight > 0
         => FailedDeliveredAsCompletion(
                Commit(pollResolved(State, FailedSnapshot)))
    /\ (eventSourceRef # NULL /\ readyState = "open" /\ ~isUnmountedRef)
         => \A p \in FailedPayloads :
              /\ FailedDeliveredAsCompletion(Commit(onmessage(State, p)))
              /\ FailedDeliveredAsCompletion(Commit(job_update(State, p)))

\* a failed snapshot has been delivered and handed to onComplete; the
\* coordinator shows it and has no error
C20_Witness ==
    /\ mounted /\ job = FailedSnapshot /\ hasCompletedRef
    /\ completeCalls = 1 /\ error = NULL

\* a refresh is in progress that has yet to call processQueue
RefreshWillProcessQueue ==
    \E r \in Requests :
        requests[r].pc \in {"getRefreshToken", "postRefresh", "setTokens",
                            "getAccessToken"}

\* C21: no request is lost in the refresh queue: a request parked in
\* failedQueue always has a refresh in progress that will settle it by
\* calling processQueue, also one parked while handleAuthFailure runs
C21_NoRequestLost ==
    \A r \in Requests :
        requests[r].pc = "queued"
            => /\ r \in Queued(failedQueue)
               /\ RefreshWillProcessQueue

\* the requests that are running the refresh branch of the interceptor
Refreshers ==
    {r \in Requests :
        requests[r].pc \in {"getRefreshToken", "postRefresh", "setTokens",
                            "getAccessToken", "handleAuthFailure"}}

\* the calls of /auth/refresh awaiting their response
RefreshCallsInFlight == {r \in Requests : requests[r].pc = "postRefresh"}

\* C22: one refresh serves all the requests that fail with 401 together:
\* at most one request runs the refresh branch and at most one call of
\* /auth/refresh is in flight; a 401 that finds no refresh running starts
\* one, and a 401 that finds one running is queued and starts none
C22_SingleRefresh ==
    /\ [](/\ Cardinality(Refreshers) <= 1
          /\ Cardinality(RefreshCallsInFlight) <= 1
          /\ (Refreshers # {} => isRefreshing))
    /\ [][\A r \in Requests :
            (Response401(r) /\ ~requests[r]._retry
                            /\ ~requests[r].skipAuthRetry)
                => IF isRefreshing
                   THEN /\ requests'[r].pc = "queued"
                        /\ Refreshers' = Refreshers
                   ELSE /\ Refreshers' = {r}
                        /\ isRefreshing']_vars

\* /auth/refresh is in flight for one request while two others, which got
\* their 401 after it, wait in the queue
C22_Witness ==
    /\ RefreshCallsInFlight # {}
    /\ Len(failedQueue) = 2
    /\ \A r \in Queued(failedQueue) : requests[r].pc = "queued"

\* request r ends its refresh in failure in this step: the promise of the
\* request that ran the refresh rejects with the refresh error
RefreshFails(r) ==
    /\ r \in Refreshers
    /\ requests'[r].pc = "rejected"
    /\ requests'[r].rejectedWith \in RefreshErrors

\* C23: when a refresh has failed, no request is left parked in the queue
\* (each was rejected with the refresh error), isRefreshing is false, and
\* unless the request that ran the refresh set skipAuthRedirect the three
\* stored tokens are gone and the user was sent to the login screen
C23_RefreshFailure ==
    [][\A r \in Requests :
          RefreshFails(r)
              => /\ ~isRefreshing'
                 /\ failedQueue' = << >>
                 /\ \A q \in Requests : requests'[q].pc # "queued"
                 /\ (~requests[r].skipAuthRedirect
                        => /\ accessTokenStore' = NULL
                           /\ refreshTokenStore' = NULL
                           /\ expiryStore' = NULL
                           /\ redirectedToLogin')]_vars

\* the payloads that fail JSON parsing
MalformedPayloads == {p \in Payloads : ParsePayload(p) = ParseError}

\* C24: a payload that fails JSON parsing is dropped: delivered on an open
\* connection as a message or as a job_update event, it leaves every field
\* of the live channel and of the coordinator as it was, invokes no
\* callback, schedules no reconnect and causes no re-render
C24_MalformedDropped ==
    (eventSourceRef # NULL /\ readyState = "open")
        => \A p \in MalformedPayloads :
              /\ Commit(onmessage(State, p)) = State
              /\ Commit(job_update(State, p)) = State

\* a connected live channel that holds a snapshot and is sent a malformed
\* payload, which it drops
C24_Witness ==
    /\ eventSourceRef # NULL /\ readyState = "open" /\ ~isUnmountedRef
    /\ isConnected /\ sseData # NoJob /\ ~isCompletedRef
    /\ MalformedPayloads # {}
    /\ \A p \in MalformedPayloads : Commit(onmessage(State, p)) = State

\* snapshots with their progress percentage, in range and out of it
ProgressValues == {0 - 1, 50, 101}
ProgressSnapshots ==
    [status : Statuses, progress_percentage : ProgressValues]

\* event.data holding snapshot d, as JSON text or as an object
PayloadsOf(d) ==
    {[isString |-> str, wellFormed |-> TRUE, body |-> d] : str \in BOOLEAN}

\* C25: a snapshot delivered by either transport is exposed unchanged: after
\* the live channel delivers it in a message or a job_update event, or a
\* status fetch resolves with it, the coordinator's current job equals it
\* field for field, whatever its progress percentage
C25_ForwardedUnchanged ==
    mounted
        => \A d \in ProgressSnapshots :
              /\ (eventSourceRef # NULL /\ readyState = "open"
                      /\ ~isUnmountedRef)
                    => \A p \in PayloadsOf(d) :
                          /\ Commit(onmessage(State, p)).job = d
                          /\ Commit(job_update(State, p)).job = d
              /\ inFlight > 0 => Commit(pollResolved(State, d)).job = d

\* C26: retry() while polling is the reported transport clears the
\* coordinator's error and restarts the fetch loop: usePolling's
\* consecutive-error counter is zero, polling is on, and one more fetch is
\* in flight, issued by the call itself
C26_RetryRestartsPolling ==
    [][(Retry /\ connectionType = "polling")
          => /\ error' = NULL
             /\ consecutiveErrorsRef' = 0
             /\ isPolling'
             /\ inFlight' = inFlight + 1
             /\ pollStarts' = pollStarts + 1]_vars

\* polling has halted on its exhausted error budget, and retry() called in
\* this state restarts it
C26_Witness ==
    /\ PollingGaveUp /\ ~isPolling /\ inFlight = 0
    /\ PendingPollTimers = 0 /\ error # NULL
    /\ pollStarts < MaxStarts
    /\ LET n == Commit(retry(State))
       IN  n.error = NULL /\ n.consecutiveErrorsRef = 0 /\ n.isPolling
               /\ n.inFlight = 1

\* the state in which the callback of the timer that reconnectTimeoutRef
\* names starts to run
AtReconnectTimer == [State EXCEPT !.reconnectTimeoutRef = "stale"]

\* C27: when a reconnect is scheduled and the live channel has neither been
\* torn down nor completed, the firing of the reconnect timer is not a
\* no-op: its connect() creates a connection
C27_ReconnectOpens ==
    (reconnectTimeoutRef = "pending" /\ ~isUnmountedRef /\ ~isCompletedRef)
        => /\ reconnectTimer(AtReconnectTimer, "current") # AtReconnectTimer
           /\ reconnectTimer(AtReconnectTimer, "current").readyState
                  = "connecting"

\* the fetch loops usePolling is running: each is either awaiting its
\* fetch or waiting for its timer
FetchLoops == inFlight + PendingPollTimers

\* C28: usePolling runs at most one fetch loop: at most one fetch is in
\* flight or one poll timer pending, whatever calls of startPolling were
\* made meanwhile
C28_SingleFetchLoop == FetchLoops <= 1

\* C29: the snapshot the coordinator exposes never goes back from a
\* terminal status to a non-terminal one (while the coordinator is mounted
\* and tracks the same job)
C29_TerminalNeverRegresses ==
    [][(isJobComplete(job) /\ mounted' /\ jobId' = jobId)
          => isJobComplete(job')]_vars

\* C30: when the job identifier changes after the completion of the
\* previous job was dispatched, the completed latch is open again for the
\* new job, so that its first terminal snapshot, handed to handleComplete,
\* invokes the consumer's onComplete
C30_LatchPerJob ==
    [][(ChangeJob /\ completeCalls >= 1 /\ hasCompletedRef)
          => /\ ~hasCompletedRef'
             /\ \A d \in {j \in Snapshots : isJobComplete(j)} :
                    handleComplete([State EXCEPT
                                       !.hasCompletedRef = hasCompletedRef',
                                       !.completeCalls = completeCalls'],
                                   d).completeCalls
                        = completeCalls' + 1]_vars

====
